---- MODULE Spec2Model ----
(***************************************************************************)
(* Model of the hypertriton / strangeness tracker of AliceO2:              *)
(*   HyperTracker (HyperTracker.cxx): construction, updateTrack,           *)
(*   recreateV0, Refit3Body, calcV0alpha and process();                    *)
(*   StrangenessTracker (StrangenessTracker.h): recreateV0,                *)
(*   getMatchingChi2, getStrangeTrackLabel, setMCTruthOn and clear().      *)
(* Track propagation, the cluster geometry and the DCA vertex fitter are   *)
(* collaborators outside these files: the outcome of each of their calls   *)
(* (success or failure, the predicted chi2, the fitter's candidate count   *)
(* or its std::runtime_error) is an input drawn from a small set.          *)
(***************************************************************************)
EXTENDS Integers, Sequences, FiniteSets, TLC

VARIABLES
  v0in,           \* const V0& v0: the input decay candidate
  hyperClusters,  \* std::vector<ITSCluster> hyperClusters
  mInitR2,        \* v0.calcR2() taken at construction
  hypV0,          \* the working decay candidate
  nClusMatching,  \* minimum number of attached clusters
  mMaxChi2,       \* chi2 cut of updateTrack
  pc,             \* position of the caller / of process()
  idx,            \* position of the range-for loops of process()
  isProcessed,    \* int isProcessed
  tryDaughter,    \* bool tryDaughter
  ITSclusV0,      \* clusters attached to the V0 (indices into hyperClusters)
  result,         \* value returned by process()
  trace,          \* the calls process() has made so far, in order
  call,           \* the last direct call of a member function and its outcome
  nCalls,         \* number of direct calls made
  mMCTruthON,          \* StrangenessTracker: flag availability of MC truth
  mStrangeTrackVec,    \* std::vector<StrangeTrack>
  mKinkTrackVec,       \* std::vector<KinkTrack>
  mClusAttachments,    \* std::vector<ClusAttachments>
  mStrangeTrackLabels, \* std::vector<o2::MCCompLabel>
  mStructClus,         \* ClusAttachments of the candidate being matched
  mITStrack,           \* ITS track of the candidate being matched
  mFitterV0,           \* the DCAFitter2 of the tracker
  wk                   \* the matches running on the tracker, one per worker

trackerVars == <<mMCTruthON, mStrangeTrackVec, mKinkTrackVec, mClusAttachments,
                 mStrangeTrackLabels, mStructClus, mITStrack, mFitterV0, wk>>

trackerVarsButWorkers ==
  <<mMCTruthON, mStrangeTrackVec, mKinkTrackVec, mClusAttachments,
    mStrangeTrackLabels, mStructClus, mITStrack, mFitterV0>>

hyperVars == <<v0in, hyperClusters, mInitR2, hypV0, nClusMatching, mMaxChi2, pc,
               idx, isProcessed, tryDaughter, ITSclusV0, result, trace, call,
               nCalls>>

vars == <<hyperVars, trackerVars>>

-----------------------------------------------------------------------------
(* Bounds of the model *)

\* longest cluster list of an ITS track
MaxClus == 2
\* direct calls of member functions on one candidate
MaxCalls == 2

(* Program constants *)

\* std::array<unsigned int, 7> arr: one slot per ITS layer
NLayers == 7
\* layer < 3 ? 0.005 : 0.01
InnerLayers == 3
\* thickness of a layer, in units of 0.001 cm
ThickInner == 5
ThickOuter == 10
\* diffR2 > -4, diffR2 < 4
R2Tol == 4

-----------------------------------------------------------------------------
(* Input sets *)

\* x and y of a cluster in its sensor frame
ClusXs == {4}
ClusYs == {1, 2, 3}
\* radius^2 of a decay vertex: with ClusXs and ClusYs it gives diffR2 in {4, 1, -4}
InitR2s == {21}
\* layer of the first cluster of a track; the next clusters are on the next layers
FirstLayers == {2}
\* values of the chi2 cut, and predicted chi2 values below, at and above zero
\* and the cuts
MaxChi2Cuts == {2, 3}
Chi2s == {-1, 0, 1, 2, 3}
\* longitudinal momenta of the positive and negative prong
ProngQls == {<<2, 1>>, <<1, 2>>}
\* frame and x at which the vertex fitter leaves the tracks it propagated
VtxFrame == [alpha |-> 0, x |-> 0]

Reverse(s) == [i \in 1 .. Len(s) |-> s[Len(s) + 1 - i]]

-----------------------------------------------------------------------------
(* Geometry (o2::its::GeometryTGeo): one sensor per layer in this model *)

GetSensorRefAlpha(sensor) == sensor + 1

GetLayer(sensor) == sensor

-----------------------------------------------------------------------------
(* o2::track::TrackParCov: the fields of a track state the tracker changes *)

NewTrack(q, ql) ==
  [alpha |-> VtxFrame.alpha, x |-> VtxFrame.x, mat |-> 0, upd |-> <<>>, cov |-> "fit",
   absCharge |-> q, ql |-> ql]

Rotate(track, alpha) == [track EXCEPT !.alpha = alpha]

PropagateTo(track, x) == [track EXCEPT !.x = x]

CorrectForMaterial(track, thick) == [track EXCEPT !.mat = @ + thick]

Update(track, clus) ==
  [track EXCEPT !.upd = Append(@, clus.sensor), !.cov = "updated"]

ResetCovariance(track) == [track EXCEPT !.cov = "reset"]

SetAbsCharge(track, q) == [track EXCEPT !.absCharge = q]

\* Outcomes of the propagation calls of one updateTrack: rotate, propagateTo
\* and correctForMaterial succeed or fail in this order, and once all three
\* have succeeded getPredictedChi2 gives chi2.
Physics ==
  {[rot |-> FALSE, prop |-> FALSE, mat |-> FALSE, chi2 |-> 0],
   [rot |-> TRUE, prop |-> FALSE, mat |-> FALSE, chi2 |-> 0],
   [rot |-> TRUE, prop |-> TRUE, mat |-> FALSE, chi2 |-> 0]}
  \cup {[rot |-> TRUE, prop |-> TRUE, mat |-> TRUE, chi2 |-> c] : c \in Chi2s}

-----------------------------------------------------------------------------
(* HyperTracker::updateTrack *)

LayerThickness(layer) == IF layer < InnerLayers THEN ThickInner ELSE ThickOuter

Chi2Gate_NonStrict(chi2, maxChi2) == chi2 <= maxChi2 /\ chi2 >= 0

Chi2Gate_NoUpperCut(chi2, maxChi2) == chi2 > 0

Chi2Gate(chi2, maxChi2) == chi2 < maxChi2 /\ chi2 > 0

\* Returns [ret, track]: the bool returned and the track as the call leaves it.
UpdateTrack(clus, track, ph, maxChi2) ==
  LET alpha == GetSensorRefAlpha(clus.sensor)
      x == clus.x
      thick == LayerThickness(GetLayer(clus.sensor))
      t1 == Rotate(track, alpha)
      t2 == PropagateTo(t1, x)
      t3 == CorrectForMaterial(t2, thick)
  IN  IF ~ph.rot THEN [ret |-> FALSE, track |-> track]
      ELSE IF ~ph.prop THEN [ret |-> FALSE, track |-> t1]
      ELSE IF ph.mat /\ Chi2Gate(ph.chi2, maxChi2)
             THEN [ret |-> TRUE, track |-> Update(t3, clus)]
      ELSE IF ph.mat THEN [ret |-> FALSE, track |-> t3]
      ELSE [ret |-> FALSE, track |-> t2]

-----------------------------------------------------------------------------
(* o2::dataformats::V0 and the DCA fitters *)

\* V0(xyz, pxyz, cov, trPos, trNeg, posID, negID, pid): the mother track is
\* built from the summed prong momenta; from records the attached clusters of
\* the prongs it was fitted from.
MakeV0(r2, trPos, trNeg, posID, negID, pid) ==
  [trk |-> NewTrack(IF trPos.absCharge >= trNeg.absCharge
                      THEN trPos.absCharge - trNeg.absCharge
                      ELSE trNeg.absCharge - trPos.absCharge,
                    trPos.ql + trNeg.ql),
   prong |-> <<trPos, trNeg>>, prongID |-> <<posID, negID>>, pid |-> pid,
   r2 |-> r2, from |-> <<trPos.upd, trNeg.upd>>]

\* the candidates the V0 finder hands over
InputV0s ==
  {MakeV0(r2, NewTrack(1, q[1]), NewTrack(1, q[2]), 1, 2, "V0") :
     r2 \in InitR2s, q \in ProngQls}

\* a default-constructed V0 member
DefaultV0 == MakeV0(0, NewTrack(1, 0), NewTrack(1, 0), 0, 0, "none")

\* Outcomes of one DCAFitterN::process and of the propagateTracksToVertex
\* that follows it: std::runtime_error, no candidate, or a candidate.
Solver ==
  {[thrown |-> TRUE, nCand |-> 0, propagated |-> FALSE, r2 |-> 0],
   [thrown |-> FALSE, nCand |-> 0, propagated |-> FALSE, r2 |-> 0]}
  \cup {[thrown |-> FALSE, nCand |-> 1, propagated |-> p, r2 |-> r] :
          p \in BOOLEAN, r \in InitR2s}

\* DCAFitterN::getTrack(i, 0)
FitterTrack(track, fit) ==
  IF fit.propagated
    THEN [track EXCEPT !.alpha = VtxFrame.alpha, !.x = VtxFrame.x]
    ELSE track

\* HyperTracker::recreateV0 with the catch clause left out
RecreateV0_NoCatch(v0, posTrack, negTrack, posID, negID, fit) ==
  IF fit.thrown THEN [ret |-> FALSE, exc |-> TRUE, v0 |-> v0]
  ELSE IF fit.nCand = 0 THEN [ret |-> FALSE, exc |-> FALSE, v0 |-> v0]
  ELSE [ret |-> TRUE, exc |-> FALSE,
        v0 |-> [MakeV0(fit.r2, FitterTrack(posTrack, fit),
                       FitterTrack(negTrack, fit), posID, negID, "HyperTriton")
                  EXCEPT !.trk = SetAbsCharge(@, 1)]]

\* HyperTracker::recreateV0: [ret, exc, v0], the bool returned, whether an
\* exception leaves the function, and hypV0 as the call leaves it.
RecreateV0(v0, posTrack, negTrack, posID, negID, fit) ==
  IF fit.thrown THEN [ret |-> FALSE, exc |-> FALSE, v0 |-> v0]
  ELSE IF fit.nCand = 0 THEN [ret |-> FALSE, exc |-> FALSE, v0 |-> v0]
  ELSE [ret |-> TRUE, exc |-> FALSE,
        v0 |-> [MakeV0(fit.r2, FitterTrack(posTrack, fit),
                       FitterTrack(negTrack, fit), posID, negID, "HyperTriton")
                  EXCEPT !.trk = SetAbsCharge(@, 1)]]

\* HyperTracker::Refit3Body
Refit3Body(v0, fit) ==
  IF fit.thrown THEN [ret |-> FALSE, exc |-> FALSE, v0 |-> v0]
  ELSE IF fit.nCand = 0 THEN [ret |-> FALSE, exc |-> FALSE, v0 |-> v0]
  ELSE [ret |-> TRUE, exc |-> FALSE,
        v0 |-> [MakeV0(fit.r2, FitterTrack(v0.prong[1], fit),
                       FitterTrack(v0.prong[2], fit), v0.prongID[1],
                       v0.prongID[2], "HyperTriton")
                  EXCEPT !.trk = SetAbsCharge(@, 1)]]

\* StrangenessTracker::recreateV0(posTrack, negTrack, newV0): newV0 is v0,
\* mV0dauIDs are posID and negID.
TrackerRecreateV0(v0, posTrack, negTrack, posID, negID, fit) ==
  IF fit.thrown THEN [ret |-> FALSE, exc |-> FALSE, v0 |-> v0]
  ELSE IF fit.nCand = 0 \/ ~fit.propagated
    THEN [ret |-> FALSE, exc |-> FALSE, v0 |-> v0]
  ELSE [ret |-> TRUE, exc |-> FALSE,
        v0 |-> MakeV0(fit.r2, FitterTrack(posTrack, fit),
                      FitterTrack(negTrack, fit), posID, negID, "HyperTriton")]

\* HyperTracker::calcV0alpha: (lQlPos - lQlNeg) / (lQlPos + lQlNeg), kept as
\* a fraction
CalcV0alpha(v0) ==
  [num |-> v0.prong[1].ql - v0.prong[2].ql,
   den |-> v0.prong[1].ql + v0.prong[2].ql]

\* alpha > 0
Positive(fr) == fr.num * fr.den > 0

-----------------------------------------------------------------------------
(* The inputs of one HyperTracker *)

\* cluster lists of an ITS track: up to MaxClus clusters on consecutive layers
ClusterLists ==
  UNION {{[i \in 1 .. n |-> [sensor |-> f + i - 1, x |-> xs[i], y |-> ys[i]]] :
            f \in FirstLayers, xs \in [1 .. n -> ClusXs], ys \in [1 .. n -> ClusYs]} :
         n \in 0 .. MaxClus}

NoCall == [fn |-> "none"]

MATCHED == "MATCHED"

REJECTED == "REJECTED"

\* the layers of the ITS
Layers == 0 .. NLayers - 1

\* the workers matching candidates on one tracker
Workers == {1, 2}

\* mFitterV0 before its first process(): no candidate
NewFitter ==
  [trk |-> <<DefaultV0.prong[1], DefaultV0.prong[2]>>,
   fit |-> [thrown |-> FALSE, nCand |-> 0, propagated |-> FALSE, r2 |-> 0]]

\* a TrackITS without clusters
NewTrackITS == [ref |-> 0, hit |-> {}, fake |-> {}]

\* a StrangenessTracker after construction; mStructClus is not read before a
\* match has filled it
NewTracker ==
  /\ mMCTruthON = FALSE
  /\ mStrangeTrackVec = <<>>
  /\ mKinkTrackVec = <<>>
  /\ mClusAttachments = <<>>
  /\ mStrangeTrackLabels = <<>>
  /\ mStructClus = [l \in Layers |-> 0]
  /\ mITStrack = NewTrackITS
  /\ mFitterV0 = NewFitter

Init ==
  /\ NewTracker
  /\ wk = [w \in Workers |-> [at |-> "none"]]
  /\ v0in \in InputV0s
  /\ hyperClusters \in ClusterLists
  /\ mMaxChi2 \in MaxChi2Cuts
  /\ mInitR2 = 0
  /\ hypV0 = DefaultV0
  /\ nClusMatching = 0
  /\ pc = "new"
  /\ idx = 1
  /\ isProcessed = 0
  /\ tryDaughter = TRUE
  /\ ITSclusV0 = <<>>
  /\ result = "none"
  /\ trace = <<>>
  /\ call = NoCall
  /\ nCalls = 0

-----------------------------------------------------------------------------
(* HyperTracker::HyperTracker *)

ChargedProngs_Swapped(v0) ==
  IF Positive(CalcV0alpha(v0))
    THEN <<v0.prong[1], SetAbsCharge(v0.prong[2], 2)>>
    ELSE <<SetAbsCharge(v0.prong[1], 2), v0.prong[2]>>

\* the prongs of v0 with charge 2 given to the helium candidate
ChargedProngs(v0) ==
  IF Positive(CalcV0alpha(v0))
    THEN <<SetAbsCharge(v0.prong[1], 2), v0.prong[2]>>
    ELSE <<v0.prong[1], SetAbsCharge(v0.prong[2], 2)>>

\* the constructor taking a DCAFitter2
ConstructWithFitter ==
  /\ pc = "new"
  /\ \E fit \in Solver :
       LET pr == ChargedProngs(v0in)
           isRecr == RecreateV0(hypV0, pr[1], pr[2], v0in.prongID[1],
                                v0in.prongID[2], fit)
       IN  /\ hypV0' = IF isRecr.ret THEN isRecr.v0 ELSE v0in
           /\ call' = [fn |-> "HyperTracker(DCAFitter2)", ret |-> isRecr.ret]
  /\ mInitR2' = v0in.r2
  /\ nClusMatching' = Len(hyperClusters)
  /\ pc' = "ready"
  /\ UNCHANGED trackerVars
  /\ UNCHANGED <<v0in, hyperClusters, mMaxChi2, idx, isProcessed, tryDaughter,
                 ITSclusV0, result, trace, nCalls>>

\* the constructor without a fitter
Construct ==
  /\ pc = "new"
  /\ hypV0' = v0in
  /\ call' = [fn |-> "HyperTracker"]
  /\ mInitR2' = v0in.r2
  /\ nClusMatching' = Len(hyperClusters)
  /\ pc' = "ready"
  /\ UNCHANGED trackerVars
  /\ UNCHANGED <<v0in, hyperClusters, mMaxChi2, idx, isProcessed, tryDaughter,
                 ITSclusV0, result, trace, nCalls>>

\* setNclusMatching(n), as the constructors call it
SetNclusMatching ==
  /\ pc = "ready"
  /\ \E n \in 0 .. MaxClus :
       /\ n # nClusMatching
       /\ nClusMatching' = n
  /\ pc' = "set"
  /\ UNCHANGED trackerVars
  /\ UNCHANGED <<v0in, hyperClusters, mInitR2, hypV0, mMaxChi2, idx,
                 isProcessed, tryDaughter, ITSclusV0, result, trace, call, nCalls>>

-----------------------------------------------------------------------------
(* HyperTracker::process *)

Event(op, k, ok) == [op |-> op, clus |-> k, ok |-> ok]

DiffR2(initR2, clus) == initR2 - clus.x * clus.x - clus.y * clus.y

\* the locals of process() at its start
ProcessBegin ==
  /\ pc \in {"ready", "set"}
  /\ isProcessed' = 0
  /\ tryDaughter' = TRUE
  /\ ITSclusV0' = <<>>
  /\ idx' = 1
  /\ pc' = "outward"
  /\ UNCHANGED trackerVars
  /\ UNCHANGED <<v0in, hyperClusters, mInitR2, hypV0, nClusMatching, mMaxChi2,
                 result, trace, call, nCalls>>

\* the locals and members one loop iteration works on
Locals ==
  [hypV0 |-> hypV0, isProcessed |-> isProcessed, tryDaughter |-> tryDaughter,
   ITSclusV0 |-> ITSclusV0, trace |-> trace, flow |-> "next"]

\* check V0 compatibility, leaving tryDaughter set after an attachment
AttachToV0_KeepFlag(st, k, clus, diffR2, pm, maxChi2) ==
  IF diffR2 > -R2Tol
    THEN LET u == UpdateTrack(clus, st.hypV0.trk, pm, maxChi2)
             v == [st.hypV0 EXCEPT !.trk = u.track]
         IN  IF u.ret
               THEN [st EXCEPT !.hypV0 = v,
                               !.isProcessed = @ + 1,
                               !.ITSclusV0 = Append(@, k),
                               !.trace = Append(@, Event("V0", k, TRUE))]
               ELSE [st EXCEPT !.hypV0 = v,
                               !.trace = Append(@, Event("V0", k, FALSE))]
    ELSE st

\* check V0 compatibility
AttachToV0(st, k, clus, diffR2, pm, maxChi2) ==
  IF diffR2 > -R2Tol
    THEN LET u == UpdateTrack(clus, st.hypV0.trk, pm, maxChi2)
             v == [st.hypV0 EXCEPT !.trk = u.track]
         IN  IF u.ret
               THEN [st EXCEPT !.hypV0 = v,
                               !.tryDaughter = FALSE,
                               !.isProcessed = @ + 1,
                               !.ITSclusV0 = Append(@, k),
                               !.trace = Append(@, Event("V0", k, TRUE))]
               ELSE [st EXCEPT !.hypV0 = v,
                               !.trace = Append(@, Event("V0", k, FALSE))]
    ELSE st

\* the prong calcV0alpha picks as the He3 track
He3Prong(v0) == IF Positive(CalcV0alpha(v0)) THEN 1 ELSE 2

\* check He3 compatibility, going on to the next cluster after a rejection
AttachToHe3_GoOn(st, k, clus, pd, fit, maxChi2) ==
  LET i == He3Prong(st.hypV0)
      u == UpdateTrack(clus, st.hypV0.prong[i], pd, maxChi2)
      v == [st.hypV0 EXCEPT !.prong[i] = u.track]
      r == RecreateV0(v, v.prong[1], v.prong[2], v.prongID[1], v.prongID[2], fit)
  IN  IF ~u.ret
        THEN [st EXCEPT !.hypV0 = v,
                        !.trace = Append(@, Event("He3", k, FALSE)),
                        !.flow = "continue"]
        ELSE [st EXCEPT !.hypV0 = r.v0,
                        !.trace = @ \o <<Event("He3", k, TRUE),
                                         Event("recreateV0", k, r.ret)>>,
                        !.isProcessed = @ + 1,
                        !.flow = "continue"]

\* if V0 is not found, check He3 compatibility
AttachToHe3(st, k, clus, pd, fit, maxChi2) ==
  LET i == He3Prong(st.hypV0)
      u == UpdateTrack(clus, st.hypV0.prong[i], pd, maxChi2)
      v == [st.hypV0 EXCEPT !.prong[i] = u.track]
      r == RecreateV0(v, v.prong[1], v.prong[2], v.prongID[1], v.prongID[2], fit)
  IN  IF ~u.ret
        THEN [st EXCEPT !.hypV0 = v,
                        !.trace = Append(@, Event("He3", k, FALSE)),
                        !.flow = "return"]
        ELSE [st EXCEPT !.hypV0 = r.v0,
                        !.trace = @ \o <<Event("He3", k, TRUE),
                                         Event("recreateV0", k, r.ret)>>,
                        !.isProcessed = @ + 1,
                        !.flow = "continue"]

\* the loop body checking He3 compatibility whatever tryDaughter is
ScanBody_AnyFlag(st, k, clus, initR2, pm, pd, fit, maxChi2) ==
  LET diffR2 == DiffR2(initR2, clus)
      s1 == AttachToV0(st, k, clus, diffR2, pm, maxChi2)
  IN  IF diffR2 < R2Tol
        THEN AttachToHe3(s1, k, clus, pd, fit, maxChi2)
        ELSE IF s1.isProcessed = 0
               THEN [s1 EXCEPT !.flow = "return"]
               ELSE s1

\* the body of the loop over hyperClusters for cluster k
ScanBody(st, k, clus, initR2, pm, pd, fit, maxChi2) ==
  LET diffR2 == DiffR2(initR2, clus)
      s1 == AttachToV0(st, k, clus, diffR2, pm, maxChi2)
  IN  IF diffR2 < R2Tol /\ s1.tryDaughter = TRUE
        THEN AttachToHe3(s1, k, clus, pd, fit, maxChi2)
        ELSE IF s1.isProcessed = 0
               THEN [s1 EXCEPT !.flow = "return"]
               ELSE s1

\* The outcomes to draw for a collaborator: all of S when the iteration can
\* consult it, one of them (which the iteration ignores) when it cannot.
Consulted(used, S) == IF used THEN S ELSE {CHOOSE e \in S : TRUE}

ScanCluster ==
  /\ pc = "outward"
  /\ idx <= Len(hyperClusters)
  /\ LET clus == hyperClusters[idx]
         diffR2 == DiffR2(mInitR2, clus)
     IN  \E pm \in Consulted(diffR2 > -R2Tol, Physics),
            pd \in Consulted(diffR2 < R2Tol /\ tryDaughter, Physics) :
           \E fit \in Consulted(pd.mat, Solver) :
             LET s == ScanBody(Locals, idx, clus, mInitR2, pm, pd, fit, mMaxChi2)
             IN  /\ hypV0' = s.hypV0
                 /\ isProcessed' = s.isProcessed
                 /\ tryDaughter' = s.tryDaughter
                 /\ ITSclusV0' = s.ITSclusV0
                 /\ trace' = s.trace
                 /\ IF s.flow = "return"
                      THEN pc' = "done" /\ result' = REJECTED /\ idx' = idx
                      ELSE pc' = pc /\ result' = result /\ idx' = idx + 1
  /\ UNCHANGED trackerVars
  /\ UNCHANGED <<v0in, hyperClusters, mInitR2, nClusMatching, mMaxChi2, call,
                 nCalls>>

\* the order in which the clusters of the V0 are fitted again, as attached
InwardOrder_AsAttached(clusV0) == clusV0

\* std::reverse(ITSclusV0.begin(), ITSclusV0.end())
InwardOrder(clusV0) == Reverse(clusV0)

\* the end of the loop over hyperClusters: resetCovariance and std::reverse
InwardBegin ==
  /\ pc = "outward"
  /\ idx > Len(hyperClusters)
  /\ IF Len(ITSclusV0) > 0
       THEN /\ hypV0' = [hypV0 EXCEPT !.trk = ResetCovariance(@)]
            /\ ITSclusV0' = InwardOrder(ITSclusV0)
            /\ trace' = Append(trace, Event("resetCovariance", 0, TRUE))
            /\ pc' = "inward"
       ELSE /\ pc' = "final"
            /\ UNCHANGED <<hypV0, ITSclusV0, trace>>
  /\ idx' = 1
  /\ UNCHANGED trackerVars
  /\ UNCHANGED <<v0in, hyperClusters, mInitR2, nClusMatching, mMaxChi2,
                 isProcessed, tryDaughter, result, call, nCalls>>

\* one iteration of the loop over ITSclusV0
InwardCluster ==
  /\ pc = "inward"
  /\ idx <= Len(ITSclusV0)
  /\ \E pm \in Physics :
       LET k == ITSclusV0[idx]
           u == UpdateTrack(hyperClusters[k], hypV0.trk, pm, mMaxChi2)
       IN  /\ hypV0' = [hypV0 EXCEPT !.trk = u.track]
           /\ trace' = Append(trace, Event("refit", k, u.ret))
           /\ IF ~u.ret
                THEN pc' = "done" /\ result' = REJECTED /\ idx' = idx
                ELSE /\ pc' = IF idx = Len(ITSclusV0) THEN "final" ELSE pc
                     /\ result' = result
                     /\ idx' = idx + 1
  /\ UNCHANGED trackerVars
  /\ UNCHANGED <<v0in, hyperClusters, mInitR2, nClusMatching, mMaxChi2,
                 isProcessed, tryDaughter, ITSclusV0, call, nCalls>>

Acceptance_Above(nProcessed, nMatching) == nProcessed > nMatching

Acceptance_Exact(nProcessed, nMatching) == nProcessed = nMatching

Acceptance_NonZero(nProcessed, nMatching) == nProcessed >= 1

\* return isProcessed >= nClusMatching
Acceptance(nProcessed, nMatching) == nProcessed >= nMatching

ProcessReturn_IgnoreRefit(refitted, nProcessed, nMatching) ==
  IF Acceptance(nProcessed, nMatching) THEN MATCHED ELSE REJECTED

\* if (!Refit3Body()) return false; return isProcessed >= nClusMatching
ProcessReturn(refitted, nProcessed, nMatching) ==
  IF refitted /\ Acceptance(nProcessed, nMatching) THEN MATCHED ELSE REJECTED

\* final 3body refit
FinalRefit ==
  /\ pc = "final"
  /\ \E fit \in Solver :
       LET r == Refit3Body(hypV0, fit)
       IN  /\ hypV0' = r.v0
           /\ trace' = Append(trace, Event("Refit3Body", 0, r.ret))
           /\ result' = ProcessReturn(r.ret, isProcessed, nClusMatching)
  /\ pc' = "done"
  /\ UNCHANGED trackerVars
  /\ UNCHANGED <<v0in, hyperClusters, mInitR2, nClusMatching, mMaxChi2, idx,
                 isProcessed, tryDaughter, ITSclusV0, call, nCalls>>

Next ==
  \/ ConstructWithFitter
  \/ Construct
  \/ SetNclusMatching
  \/ ProcessBegin
  \/ ScanCluster
  \/ InwardBegin
  \/ InwardCluster
  \/ FinalRefit

Spec == Init /\ [][Next]_vars

-----------------------------------------------------------------------------
(* Direct calls of the member functions on one candidate: updateTrack,       *)
(* recreateV0 and Refit3Body of HyperTracker, recreateV0 of                  *)
(* StrangenessTracker. call holds the arguments, the collaborators' outcomes *)
(* and what the call returned; before is hypV0 as the call found it.         *)

\* cluster lists of the direct calls: MaxClus clusters, all at one y
CallClusterLists ==
  {c \in ClusterLists : Len(c) = MaxClus /\ \A i \in 1 .. Len(c) : c[i].y = 2}

InitCalls ==
  /\ NewTracker
  /\ wk = [w \in Workers |-> [at |-> "none"]]
  /\ v0in \in InputV0s
  /\ hyperClusters \in CallClusterLists
  /\ mMaxChi2 \in MaxChi2Cuts
  /\ mInitR2 = v0in.r2
  /\ hypV0 = v0in
  /\ nClusMatching = Len(hyperClusters)
  /\ pc = "calls"
  /\ idx = 1
  /\ isProcessed = 0
  /\ tryDaughter = TRUE
  /\ ITSclusV0 = <<>>
  /\ result = "none"
  /\ trace = <<>>
  /\ call = NoCall
  /\ nCalls = 0

\* the track a call works on: 0 is the V0 itself, 1 and 2 are its prongs
TrackOf(v0, target) == IF target = 0 THEN v0.trk ELSE v0.prong[target]

WithTrack(v0, target, track) ==
  IF target = 0 THEN [v0 EXCEPT !.trk = track]
  ELSE [v0 EXCEPT !.prong[target] = track]

NoPhysics == CHOOSE ph \in Physics : TRUE

NoFit == CHOOSE fit \in Solver : TRUE

CallRecord(fn, k, target, ph, fit, ret, exc) ==
  [fn |-> fn, clus |-> k, target |-> target, ph |-> ph, fit |-> fit,
   maxChi2 |-> mMaxChi2, before |-> hypV0, ret |-> ret, exc |-> exc]

\* updateTrack(clus, hypV0) and updateTrack(clus, he3track)
UpdateTrackCall ==
  /\ pc = "calls"
  /\ nCalls < MaxCalls
  /\ \E k \in 1 .. Len(hyperClusters), target \in {0, He3Prong(hypV0)},
        ph \in Physics :
       LET u == UpdateTrack(hyperClusters[k], TrackOf(hypV0, target), ph, mMaxChi2)
       IN  /\ hypV0' = WithTrack(hypV0, target, u.track)
           /\ call' = CallRecord("updateTrack", k, target, ph, NoFit, u.ret, FALSE)
  /\ nCalls' = nCalls + 1
  /\ UNCHANGED trackerVars
  /\ UNCHANGED <<v0in, hyperClusters, mInitR2, nClusMatching, mMaxChi2, pc, idx,
                 isProcessed, tryDaughter, ITSclusV0, result, trace>>

\* recreateV0(hypV0.getProng(0), hypV0.getProng(1), ...)
RecreateV0Call ==
  /\ pc = "calls"
  /\ nCalls < MaxCalls
  /\ \E fit \in Solver :
       LET r == RecreateV0(hypV0, hypV0.prong[1], hypV0.prong[2],
                           hypV0.prongID[1], hypV0.prongID[2], fit)
       IN  /\ hypV0' = r.v0
           /\ call' = CallRecord("recreateV0", 0, 0, NoPhysics, fit, r.ret, r.exc)
  /\ nCalls' = nCalls + 1
  /\ UNCHANGED trackerVars
  /\ UNCHANGED <<v0in, hyperClusters, mInitR2, nClusMatching, mMaxChi2, pc, idx,
                 isProcessed, tryDaughter, ITSclusV0, result, trace>>

\* Refit3Body()
Refit3BodyCall ==
  /\ pc = "calls"
  /\ nCalls < MaxCalls
  /\ \E fit \in Solver :
       LET r == Refit3Body(hypV0, fit)
       IN  /\ hypV0' = r.v0
           /\ call' = CallRecord("Refit3Body", 0, 0, NoPhysics, fit, r.ret, r.exc)
  /\ nCalls' = nCalls + 1
  /\ UNCHANGED trackerVars
  /\ UNCHANGED <<v0in, hyperClusters, mInitR2, nClusMatching, mMaxChi2, pc, idx,
                 isProcessed, tryDaughter, ITSclusV0, result, trace>>

\* StrangenessTracker::recreateV0(posTrack, negTrack, newV0) on the candidate
TrackerRecreateV0Call ==
  /\ pc = "calls"
  /\ nCalls < MaxCalls
  /\ \E fit \in Solver :
       LET r == TrackerRecreateV0(hypV0, hypV0.prong[1], hypV0.prong[2],
                                  hypV0.prongID[1], hypV0.prongID[2], fit)
       IN  /\ hypV0' = r.v0
           /\ call' = CallRecord("StrangenessTracker::recreateV0", 0, 0,
                                 NoPhysics, fit, r.ret, r.exc)
  /\ nCalls' = nCalls + 1
  /\ UNCHANGED trackerVars
  /\ UNCHANGED <<v0in, hyperClusters, mInitR2, nClusMatching, mMaxChi2, pc, idx,
                 isProcessed, tryDaughter, ITSclusV0, result, trace>>

\* return -1 of HyperTracker::getMatchingChi2
NoChi2 == -1

\* return -100 of StrangenessTracker::getMatchingChi2
TrackerNoChi2 == -100

\* HyperTracker::getMatchingChi2: [ret, v0], the chi2 returned and hypV0 as
\* the call leaves it; rotate and propagateTo are called on hypV0 itself.
GetMatchingChi2(v0, clusters, ph) ==
  LET outerClus == clusters[1]
      t1 == Rotate(v0.trk, GetSensorRefAlpha(outerClus.sensor))
      t2 == PropagateTo(t1, outerClus.x)
  IN  IF ~ph.rot THEN [ret |-> NoChi2, v0 |-> v0]
      ELSE IF ~ph.prop THEN [ret |-> NoChi2, v0 |-> [v0 EXCEPT !.trk = t1]]
      ELSE [ret |-> ph.chi2, v0 |-> [v0 EXCEPT !.trk = t2]]

\* StrangenessTracker::getMatchingChi2(v0, ITStrack): both arguments are
\* passed by value, the rotated and propagated copy is dropped.
TrackerGetMatchingChi2(v0, ph) ==
  IF ph.rot /\ ph.prop THEN [ret |-> ph.chi2, v0 |-> v0]
  ELSE [ret |-> TrackerNoChi2, v0 |-> v0]

\* getMatchingChi2()
GetMatchingChi2Call ==
  /\ pc = "calls"
  /\ nCalls < MaxCalls
  /\ \E ph \in Physics :
       LET r == GetMatchingChi2(hypV0, hyperClusters, ph)
       IN  /\ hypV0' = r.v0
           /\ call' = [fn |-> "getMatchingChi2", ph |-> ph, before |-> hypV0,
                       chi2 |-> r.ret]
  /\ nCalls' = nCalls + 1
  /\ UNCHANGED trackerVars
  /\ UNCHANGED <<v0in, hyperClusters, mInitR2, nClusMatching, mMaxChi2, pc, idx,
                 isProcessed, tryDaughter, ITSclusV0, result, trace>>

\* StrangenessTracker::getMatchingChi2(hypV0, ITStrack)
TrackerGetMatchingChi2Call ==
  /\ pc = "calls"
  /\ nCalls < MaxCalls
  /\ \E ph \in Physics :
       LET r == TrackerGetMatchingChi2(hypV0, ph)
       IN  /\ hypV0' = r.v0
           /\ call' = [fn |-> "StrangenessTracker::getMatchingChi2", ph |-> ph,
                       before |-> hypV0, chi2 |-> r.ret]
  /\ nCalls' = nCalls + 1
  /\ UNCHANGED trackerVars
  /\ UNCHANGED <<v0in, hyperClusters, mInitR2, nClusMatching, mMaxChi2, pc, idx,
                 isProcessed, tryDaughter, ITSclusV0, result, trace>>

NextCalls ==
  \/ UpdateTrackCall
  \/ RecreateV0Call
  \/ Refit3BodyCall
  \/ TrackerRecreateV0Call
  \/ GetMatchingChi2Call
  \/ TrackerGetMatchingChi2Call

SpecCalls == InitCalls /\ [][NextCalls]_vars

-----------------------------------------------------------------------------
(* StrangenessTracker: the output vectors, clear(), setMCTruthOn() and       *)
(* getStrangeTrackLabel(). The matching loop that fills mITStrack and        *)
(* mStructClus and pushes the results is outside these files: a match is an  *)
(* input drawn from InputMatches.                                            *)

\* strange tracks, and kink tracks, pushed between two clear()
MaxOut == 1
\* labels in mStrangeTrackLabels
MaxLabels == 2

\* ClusAttachments::arr: -1 not attached, 0 for the mother, > 0 for the
\* daughters
NotAttached == -1

AttachedToMother == 0

\* the daughter a cluster can be attached to
Daughters == {1}

\* the layers on which the ITS tracks of the model have clusters
TrackLayers == {0, 1}

InputTracksITS ==
  {[ref |-> 1, hit |-> TrackLayers, fake |-> f] : f \in {{}, {0}, {1}}}

\* an ITS track and the attachments of its clusters: a cluster that is
\* attached is a cluster of the track
InputMatches ==
  {m \in {[track |-> t,
           arr |-> [l \in Layers |-> IF l \in TrackLayers THEN o[l]
                                     ELSE NotAttached]] :
            t \in InputTracksITS,
            o \in [TrackLayers -> {NotAttached, AttachedToMother} \cup Daughters]} :
     \A l \in Layers : m.arr[l] # NotAttached => l \in m.track.hit}

\* mITSTrkLabels[mStrangeTrack.mITSRef]
InputLabels == {[ref |-> 1, fake |-> f] : f \in BOOLEAN}

GetStrangeTrackLabel_NotDaughter(itsTrkLab, track, structClus) ==
  LET isFake == \E iLay \in Layers :
                  /\ iLay \in track.hit
                  /\ iLay \in track.fake
                  /\ structClus[iLay] \notin Daughters
  IN  [itsTrkLab EXCEPT !.fake = isFake]

\* ITS label with fake flag recomputed
GetStrangeTrackLabel(itsTrkLab, track, structClus) ==
  LET isFake == \E iLay \in Layers :
                  /\ iLay \in track.hit
                  /\ iLay \in track.fake
                  /\ structClus[iLay] = 0
  IN  [itsTrkLab EXCEPT !.fake = isFake]

InitTracker ==
  /\ NewTracker
  /\ wk = [w \in Workers |-> [at |-> "none"]]
  /\ v0in = DefaultV0
  /\ hyperClusters = <<>>
  /\ mMaxChi2 \in MaxChi2Cuts
  /\ mInitR2 = 0
  /\ hypV0 = DefaultV0
  /\ nClusMatching = 0
  /\ pc = "tracker"
  /\ idx = 1
  /\ isProcessed = 0
  /\ tryDaughter = TRUE
  /\ ITSclusV0 = <<>>
  /\ result = "none"
  /\ trace = <<>>
  /\ call = NoCall
  /\ nCalls = 0

\* what the tracker actions leave alone of the candidate
CandidateVars ==
  <<v0in, hyperClusters, mInitR2, hypV0, nClusMatching, mMaxChi2, pc, idx,
    isProcessed, tryDaughter, ITSclusV0, result, trace, nCalls>>

\* setMCTruthOn(v)
SetMCTruthOn ==
  /\ pc = "tracker"
  /\ \E v \in BOOLEAN :
       /\ v # mMCTruthON
       /\ mMCTruthON' = v
  /\ call' = [fn |-> "setMCTruthOn"]
  /\ UNCHANGED <<mStrangeTrackVec, mKinkTrackVec, mClusAttachments,
                 mStrangeTrackLabels, mStructClus, mITStrack, mFitterV0, wk>>
  /\ UNCHANGED CandidateVars

\* clear()
Clear ==
  /\ pc = "tracker"
  /\ mClusAttachments' = <<>>
  /\ mStrangeTrackVec' = <<>>
  /\ mKinkTrackVec' = <<>>
  /\ mStrangeTrackLabels' = IF mMCTruthON THEN <<>> ELSE mStrangeTrackLabels
  /\ call' = [fn |-> "clear"]
  /\ UNCHANGED <<mMCTruthON, mStructClus, mITStrack, mFitterV0, wk>>
  /\ UNCHANGED CandidateVars

\* a V0 or cascade matched to an ITS track: the strange track and its
\* attachments are pushed, and its label when the MC truth is on
MatchDecay ==
  /\ pc = "tracker"
  /\ Len(mStrangeTrackVec) < MaxOut
  /\ mMCTruthON => Len(mStrangeTrackLabels) < MaxLabels
  /\ \E m \in InputMatches, itsTrkLab \in InputLabels :
       LET lab == GetStrangeTrackLabel(itsTrkLab, m.track, m.arr)
       IN  /\ mITStrack' = m.track
           /\ mStructClus' = m.arr
           /\ mStrangeTrackVec' = Append(mStrangeTrackVec, [mITSRef |-> m.track.ref])
           /\ mClusAttachments' = Append(mClusAttachments, m.arr)
           /\ IF mMCTruthON
                THEN /\ mStrangeTrackLabels' = Append(mStrangeTrackLabels, lab)
                     /\ call' = [fn |-> "getStrangeTrackLabel",
                                 itsTrkLab |-> itsTrkLab, label |-> lab]
                ELSE /\ UNCHANGED mStrangeTrackLabels
                     /\ call' = [fn |-> "matchDecayToITStrack"]
  /\ UNCHANGED <<mMCTruthON, mKinkTrackVec, mFitterV0, wk>>
  /\ UNCHANGED CandidateVars

\* a kink matched to an ITS track: the kink track is pushed
MatchKink ==
  /\ pc = "tracker"
  /\ Len(mKinkTrackVec) < MaxOut
  /\ \E t \in InputTracksITS :
       mKinkTrackVec' = Append(mKinkTrackVec, [mITSRef |-> t.ref])
  /\ call' = [fn |-> "matchKinkToITSTrack"]
  /\ UNCHANGED <<mMCTruthON, mStrangeTrackVec, mClusAttachments,
                 mStrangeTrackLabels, mStructClus, mITStrack, mFitterV0, wk>>
  /\ UNCHANGED CandidateVars

NextTracker ==
  \/ SetMCTruthOn
  \/ Clear
  \/ MatchDecay
  \/ MatchKink

SpecTracker == InitTracker /\ [][NextTracker]_vars

-----------------------------------------------------------------------------
(* Candidates matched on separate workers of one StrangenessTracker: each    *)
(* worker runs recreateV0(posTrack, negTrack, newV0) on its own candidate,   *)
(* in two steps, the calls that write mFitterV0 and the calls that read it.  *)

InitWorkers ==
  /\ NewTracker
  /\ wk \in [Workers -> {[at |-> "start", v0 |-> v, newV0 |-> v,
                          fit |-> NewFitter.fit, ret |-> FALSE] : v \in InputV0s}]
  /\ v0in = DefaultV0
  /\ hyperClusters = <<>>
  /\ mMaxChi2 \in MaxChi2Cuts
  /\ mInitR2 = 0
  /\ hypV0 = DefaultV0
  /\ nClusMatching = 0
  /\ pc = "workers"
  /\ idx = 1
  /\ isProcessed = 0
  /\ tryDaughter = TRUE
  /\ ITSclusV0 = <<>>
  /\ result = "none"
  /\ trace = <<>>
  /\ call = NoCall
  /\ nCalls = 0

\* nCand = mFitterV0.process(posTrack, negTrack) and
\* mFitterV0.propagateTracksToVertex(), with the two early returns
FitterProcess ==
  /\ pc = "workers"
  /\ \E w \in Workers, fit \in Solver :
       /\ wk[w].at = "start"
       /\ mFitterV0' = [trk |-> wk[w].v0.prong, fit |-> fit]
       /\ wk' = [wk EXCEPT ![w].fit = fit,
                           ![w].at = IF fit.thrown \/ fit.nCand = 0 \/ ~fit.propagated
                                       THEN "done" ELSE "fitted"]
  /\ UNCHANGED <<mMCTruthON, mStrangeTrackVec, mKinkTrackVec, mClusAttachments,
                 mStrangeTrackLabels, mStructClus, mITStrack>>
  /\ UNCHANGED hyperVars

\* newV0 = V0(mFitterV0.getPCACandidatePos(), ..., mFitterV0.getTrack(0, 0),
\* mFitterV0.getTrack(1, 0), ...); return true
FitterRead ==
  /\ pc = "workers"
  /\ \E w \in Workers :
       /\ wk[w].at = "fitted"
       /\ wk' = [wk EXCEPT
                   ![w].newV0 = MakeV0(mFitterV0.fit.r2,
                                       FitterTrack(mFitterV0.trk[1], mFitterV0.fit),
                                       FitterTrack(mFitterV0.trk[2], mFitterV0.fit),
                                       wk[w].v0.prongID[1], wk[w].v0.prongID[2],
                                       "HyperTriton"),
                   ![w].ret = TRUE,
                   ![w].at = "done"]
  /\ UNCHANGED trackerVarsButWorkers
  /\ UNCHANGED hyperVars

NextWorkers ==
  \/ FitterProcess
  \/ FitterRead

SpecWorkers == InitWorkers /\ [][NextWorkers]_vars

-----------------------------------------------------------------------------
(* Properties of the direct calls (SpecCalls) *)

IsUpdateTrackCall == call.fn = "updateTrack"

\* the track the last call worked on, before and after the call
TrackBefore == TrackOf(call.before, call.target)

TrackAfter == TrackOf(hypV0, call.target)

\* C1: updateTrack returns true exactly when rotate, propagateTo and
\* correctForMaterial succeed and 0 < chi2 < mMaxChi2, both bounds strict;
\* the track gets the cluster's update exactly when it returns true.
C1_AcceptIffGate ==
  IsUpdateTrackCall =>
    /\ call.ret <=> (/\ call.ph.rot
                     /\ call.ph.prop
                     /\ call.ph.mat
                     /\ 0 < call.ph.chi2
                     /\ call.ph.chi2 < call.maxChi2)
    /\ TrackAfter.upd =
         IF call.ret
           THEN Append(TrackBefore.upd, hyperClusters[call.clus].sensor)
           ELSE TrackBefore.upd

\* an accepted cluster with the largest chi2 below the cut
C1_Witness ==
  /\ IsUpdateTrackCall
  /\ call.ret
  /\ call.ph.chi2 = call.maxChi2 - 1
  /\ TrackAfter.upd # TrackBefore.upd

\* C2: whenever updateTrack rejects a cluster, the caller's track is as it
\* was before the call.
C2_RejectionLeavesTrack ==
  (IsUpdateTrackCall /\ ~call.ret) => TrackAfter = TrackBefore

IsRefitCall ==
  call.fn \in {"recreateV0", "Refit3Body", "StrangenessTracker::recreateV0"}

-----------------------------------------------------------------------------
(* Properties of process() (Spec), read off the calls it has made *)

IsV0Attached(e) == e.op = "V0" /\ e.ok

IsHe3Attempt(e) == e.op = "He3"

IsHe3Attached(e) == e.op = "He3" /\ e.ok

IsAttached(e) == IsV0Attached(e) \/ IsHe3Attached(e)

IsInwardRefit(e) == e.op = "refit"

IsScanEvent(e) == e.op \in {"V0", "He3"}

ClusOf(events) == [i \in 1 .. Len(events) |-> events[i].clus]

\* the clusters attached to the V0 in the outward pass, in the order attached
MotherHits == ClusOf(SelectSeq(trace, IsV0Attached))

\* the clusters fitted again in the inward pass, in the order fitted
InwardHits == ClusOf(SelectSeq(trace, IsInwardRefit))

\* number of clusters attached in the outward pass, to the V0 or to a prong
NAttached == Len(SelectSeq(trace, IsAttached))

HasEvent(op, ok) == \E i \in 1 .. Len(trace) : trace[i].op = op /\ trace[i].ok = ok

FinalRefitDone == HasEvent("Refit3Body", TRUE)

IsPrefix(s, t) == Len(s) <= Len(t) /\ \A i \in 1 .. Len(s) : s[i] = t[i]

\* C3: a rejected He3 attachment ends process() at once with REJECTED: it is
\* the last call made, no later cluster is examined and neither the inward
\* refit nor Refit3Body is run.
C3_DaughterFailureRejects ==
  \A i \in 1 .. Len(trace) :
    (IsHe3Attempt(trace[i]) /\ ~trace[i].ok) =>
      /\ i = Len(trace)
      /\ pc = "done"
      /\ result = REJECTED
      /\ idx = trace[i].clus

\* a He3 attachment rejected at a cluster that is not the last of the track
C3_Witness ==
  /\ trace # <<>>
  /\ IsHe3Attempt(trace[Len(trace)])
  /\ ~trace[Len(trace)].ok
  /\ trace[Len(trace)].clus < Len(hyperClusters)
  /\ result = REJECTED

\* C4: when the He3 attachments and the inward refit did not fail and
\* Refit3Body has succeeded, process() returns MATCHED exactly when the
\* number of clusters attached in the outward pass is at least nClusMatching.
C4_ThresholdBoundary ==
  (/\ pc = "done"
   /\ FinalRefitDone
   /\ ~HasEvent("He3", FALSE)
   /\ ~HasEvent("refit", FALSE)) =>
    (result = MATCHED <=> NAttached >= nClusMatching)

\* one cluster fewer than the minimum, every refit successful: REJECTED
C4_Witness ==
  /\ pc = "done"
  /\ FinalRefitDone
  /\ nClusMatching >= 2
  /\ NAttached = nClusMatching - 1
  /\ result = REJECTED

\* C5: process() returns REJECTED for lack of attached clusters only once
\* all clusters of the track have been scanned: it does not stop, with no
\* cluster attached and no He3 attachment rejected, at a cluster that is
\* followed by others.
C5_ZeroCheckAfterScan ==
  (/\ pc = "done"
   /\ result = REJECTED
   /\ NAttached = 0
   /\ ~HasEvent("He3", FALSE)) =>
    (FinalRefitDone \/ HasEvent("Refit3Body", FALSE) \/ idx >= Len(hyperClusters))

\* C6: with no cluster attached, process() never returns MATCHED.
C6_NoAttachmentNoMatch ==
  NAttached = 0 => result # MATCHED

\* C7: tryDaughter is set when the scan starts and stays set exactly until
\* the first cluster is attached to the V0; after that no He3 attachment is
\* attempted.
C7_FallbackOneWay ==
  /\ pc \in {"outward", "inward", "final", "done"} =>
       (tryDaughter <=> MotherHits = <<>>)
  /\ \A i, j \in 1 .. Len(trace) :
       (i < j /\ IsV0Attached(trace[i])) => ~IsHe3Attempt(trace[j])

\* a cluster in the He3 band scanned after a cluster was attached to the V0
C7_Witness ==
  /\ pc \in {"inward", "final"}
  /\ MotherHits # <<>>
  /\ \E k \in 1 .. Len(hyperClusters) :
       /\ k > MotherHits[1]
       /\ DiffR2(mInitR2, hyperClusters[k]) < R2Tol

\* C8: no cluster is attached both to the V0 and to a prong, and the number
\* of attached clusters is isProcessed and exceeds neither the number of
\* clusters examined nor the number of layers.
C8_OwnershipExclusive ==
  /\ \A i, j \in 1 .. Len(trace) :
       (IsAttached(trace[i]) /\ IsAttached(trace[j]) /\ i # j) =>
         trace[i].clus # trace[j].clus
  /\ pc # "new" => isProcessed = NAttached
  /\ NAttached <= Cardinality({e.clus : e \in {trace[i] : i \in
                     {j \in 1 .. Len(trace) : IsScanEvent(trace[j])}}})
  /\ NAttached <= Len(hyperClusters)
  /\ NAttached <= NLayers

\* a cluster within both bands attached to the V0, the scan gone past it
C8_Witness ==
  /\ pc = "final"
  /\ \E i \in 1 .. Len(trace) :
       /\ IsV0Attached(trace[i])
       /\ DiffR2(mInitR2, hyperClusters[trace[i].clus]) > -R2Tol
       /\ DiffR2(mInitR2, hyperClusters[trace[i].clus]) < R2Tol

OutwardDone ==
  \/ pc \in {"inward", "final"}
  \/ pc = "done" /\ \E i \in 1 .. Len(trace) :
                       trace[i].op \in {"refit", "Refit3Body"}

\* C10: the inward pass runs exactly when the outward pass has ended with a
\* cluster attached to the V0; it resets the covariance first and then
\* fits the clusters attached to the V0 again, each once, in the reverse of
\* the order of attachment; the first rejection ends process() with REJECTED.
C10_InwardRefit ==
  /\ HasEvent("resetCovariance", TRUE) => OutwardDone
  /\ OutwardDone => (HasEvent("resetCovariance", TRUE) <=> MotherHits # <<>>)
  /\ \A i, j \in 1 .. Len(trace) :
       (trace[i].op = "resetCovariance" /\ IsInwardRefit(trace[j])) => i < j
  /\ (pc = "inward" /\ InwardHits = <<>>) => hypV0.trk.cov = "reset"
  /\ IsPrefix(InwardHits, Reverse(MotherHits))
  /\ (pc = "final" \/ HasEvent("Refit3Body", TRUE) \/ HasEvent("Refit3Body", FALSE))
       => InwardHits = Reverse(MotherHits)
  /\ \A i \in 1 .. Len(trace) :
       (IsInwardRefit(trace[i]) /\ ~trace[i].ok) =>
         i = Len(trace) /\ pc = "done" /\ result = REJECTED

\* two clusters attached to the V0 and both fitted again
C10_Witness ==
  /\ pc = "final"
  /\ Len(MotherHits) >= 2
  /\ InwardHits = Reverse(MotherHits)

\* the phases of process(), in the order of its code
PhaseRank(p) ==
  CASE p = "outward" -> 1
    [] p = "inward" -> 2
    [] p = "final" -> 3
    [] p = "done" -> 4
    [] OTHER -> 0

\* C11: process() goes through the outward scan, the inward refit and
\* Refit3Body in this order only and never back; it returns MATCHED only
\* from Refit3Body and only when Refit3Body has succeeded, a failed
\* Refit3Body gives REJECTED, and nothing happens after it has returned.
C11_PhaseOrder ==
  [][/\ pc # "done"
     /\ PhaseRank(pc') >= PhaseRank(pc)
     /\ pc' = "final" => pc \in {"outward", "inward"}
     /\ pc' = "inward" => pc \in {"outward", "inward"}
     /\ result' = MATCHED =>
          /\ pc = "final" /\ pc' = "done"
          /\ trace'[Len(trace')] = Event("Refit3Body", 0, TRUE)
     /\ (pc = "final" /\ trace'[Len(trace')] = Event("Refit3Body", 0, FALSE)) =>
          pc' = "done" /\ result' = REJECTED
     /\ pc' = "done" => result' \in {MATCHED, REJECTED}
     /\ pc' # "done" => result' = "none"]_vars

\* Refit3Body has failed on a candidate with enough clusters attached
C11_Witness ==
  /\ pc = "done"
  /\ HasEvent("Refit3Body", FALSE)
  /\ HasEvent("refit", TRUE)
  /\ NAttached >= nClusMatching
  /\ result = REJECTED

\* C15: for one cluster and one track on which rotate, propagateTo and
\* correctForMaterial succeed with a chi2 above zero, updateTrack rejects
\* under every mMaxChi2 that is at most the chi2 and accepts under every
\* mMaxChi2 above it; the call made follows the same rule.
C15_MonotonicGate ==
  (/\ IsUpdateTrackCall
   /\ call.ph.rot /\ call.ph.prop /\ call.ph.mat
   /\ call.ph.chi2 > 0) =>
    /\ call.ret <=> call.maxChi2 > call.ph.chi2
    /\ \A m \in MaxChi2Cuts :
         UpdateTrack(hyperClusters[call.clus], TrackBefore, call.ph, m).ret
           <=> m > call.ph.chi2

\* a chi2 rejected under the cut of the call and accepted under a larger one
C15_Witness ==
  /\ IsUpdateTrackCall
  /\ call.ph.rot /\ call.ph.prop /\ call.ph.mat
  /\ call.ph.chi2 = call.maxChi2
  /\ ~call.ret
  /\ \E m \in MaxChi2Cuts :
       UpdateTrack(hyperClusters[call.clus], TrackBefore, call.ph, m).ret

\* to whom process() has attached cluster k in the outward pass
Owner(k) ==
  IF \E i \in 1 .. Len(trace) : IsV0Attached(trace[i]) /\ trace[i].clus = k
    THEN "mother"
  ELSE IF \E i \in 1 .. Len(trace) : IsHe3Attached(trace[i]) /\ trace[i].clus = k
    THEN "daughter"
  ELSE "unattached"

\* the owner of the cluster of the track on a layer, if there is one
LayerOwner(layer) ==
  IF \E k \in 1 .. Len(hyperClusters) : GetLayer(hyperClusters[k].sensor) = layer
    THEN Owner(CHOOSE k \in 1 .. Len(hyperClusters) :
                 GetLayer(hyperClusters[k].sensor) = layer)
  ELSE "unattached"

\* every cluster attached to the V0, all of them fitted again, Refit3Body done
AllAcceptedByV0 ==
  /\ pc = "done"
  /\ hyperClusters # <<>>
  /\ Len(MotherHits) = Len(hyperClusters)
  /\ InwardHits = Reverse(MotherHits)
  /\ ~HasEvent("refit", FALSE)
  /\ FinalRefitDone

\* what C16 promises of such a candidate
MatchedByMotherOnly ==
  /\ result = MATCHED
  /\ \A k \in 1 .. Len(hyperClusters) : Owner(k) = "mother"
  /\ \A l \in 0 .. NLayers - 1 :
       LayerOwner(l) = IF \E k \in 1 .. Len(hyperClusters) :
                              GetLayer(hyperClusters[k].sensor) = l
                         THEN "mother" ELSE "unattached"

C17_RegeneratedAfterDaughter ==
  /\ \A i \in 1 .. Len(trace) :
       IsHe3Attached(trace[i]) =>
         /\ i < Len(trace)
         /\ trace[i + 1] = Event("recreateV0", trace[i].clus, TRUE)
  /\ (pc = "outward" /\ \E i \in 1 .. Len(trace) : IsHe3Attached(trace[i])) =>
       hypV0.from = <<hypV0.prong[1].upd, hypV0.prong[2].upd>>

\* what the constructor has left, while nothing else has been called
Constructed(fn) == pc = "ready" /\ call.fn = fn

\* C18: the constructors leave the V0 handed in as it was and return no
\* outcome. With a fitter, hypV0 is the recreated V0 when recreateV0 has
\* succeeded: HyperTriton, absolute charge 1, its prongs those of the input
\* with charge 2 on the one the sign of the V0 alpha selects and on that
\* one only; it is a copy of the input when recreateV0 has failed. Without
\* a fitter it is a copy of the input.
C18_Construction ==
  /\ [](/\ v0in \in InputV0s
        /\ Constructed("HyperTracker") => (hypV0 = v0in /\ result = "none")
        /\ Constructed("HyperTracker(DCAFitter2)") =>
             /\ result = "none"
             /\ ~call.ret => hypV0 = v0in
             /\ call.ret =>
                  /\ hypV0.pid = "HyperTriton"
                  /\ hypV0.trk.absCharge = 1
                  /\ hypV0.prongID = v0in.prongID
                  /\ hypV0.prong[He3Prong(v0in)].absCharge = 2
                  /\ hypV0.prong[3 - He3Prong(v0in)].absCharge = 1
                  /\ \A i \in 1 .. 2 : hypV0.prong[i].ql = v0in.prong[i].ql)
  /\ [][v0in' = v0in]_vars

\* a V0 recreated with the charge 2 on its negative prong
C18_Witness ==
  /\ Constructed("HyperTracker(DCAFitter2)")
  /\ call.ret
  /\ hypV0 # v0in
  /\ hypV0.prong[2].absCharge = 2
  /\ v0in.prong[2].absCharge = 1

\* nClusMatching is what the constructors have set: the number of clusters
DefaultThreshold == pc # "new" /\ nClusMatching = Len(hyperClusters)

\* C19: with nClusMatching as the constructors set it, process() returns
\* MATCHED only when every cluster of the track has been attached in the
\* outward pass, to the V0 or to a prong; with one cluster attached to
\* neither it returns REJECTED, whatever the refits do.
C19_DefaultNeedsAllHits ==
  DefaultThreshold =>
    /\ result = MATCHED =>
         /\ NAttached = Len(hyperClusters)
         /\ \A k \in 1 .. Len(hyperClusters) : Owner(k) # "unattached"
    /\ (pc = "done" /\ \E k \in 1 .. Len(hyperClusters) : Owner(k) = "unattached")
         => result = REJECTED

\* one cluster attached, one not, every refit successful: REJECTED
C19_Witness ==
  /\ DefaultThreshold
  /\ pc = "done"
  /\ FinalRefitDone
  /\ NAttached >= 1
  /\ \E k \in 1 .. Len(hyperClusters) : Owner(k) = "unattached"
  /\ result = REJECTED

IsMatchingChi2Call ==
  call.fn \in {"getMatchingChi2", "StrangenessTracker::getMatchingChi2"}

\* C20: getMatchingChi2 leaves hypV0 as it found it, and when rotate or
\* propagateTo fails it returns a negative value that the chi2 cut of
\* updateTrack passes under no mMaxChi2.
C20_MatchingChi2IsQuery ==
  IsMatchingChi2Call =>
    /\ hypV0 = call.before
    /\ (~call.ph.rot \/ ~call.ph.prop) =>
         /\ call.chi2 < 0
         /\ \A m \in MaxChi2Cuts : ~Chi2Gate(call.chi2, m)

-----------------------------------------------------------------------------
(* Properties of the StrangenessTracker (SpecTracker) *)

IsLabelCall == call.fn = "getStrangeTrackLabel"

\* what a slot of ClusAttachments::arr says of the cluster on its layer
AttachmentOf(v) ==
  IF v = NotAttached THEN "unattached"
  ELSE IF v = AttachedToMother THEN "mother"
  ELSE "daughter"

\* the layers of mITStrack with a cluster that the MC truth calls fake
FakeHitLayers == {l \in Layers : l \in mITStrack.hit /\ l \in mITStrack.fake}

C14_ClearEmptiesOutputs ==
  call.fn = "clear" =>
    /\ mStrangeTrackVec = <<>>
    /\ mKinkTrackVec = <<>>
    /\ mClusAttachments = <<>>
    /\ mStrangeTrackLabels = <<>>

-----------------------------------------------------------------------------
(* Properties of the matches on separate workers (SpecWorkers) *)

\* recreateV0 of worker w run on a fitter of its own
Alone(w) ==
  TrackerRecreateV0(wk[w].v0, wk[w].v0.prong[1], wk[w].v0.prong[2],
                    wk[w].v0.prongID[1], wk[w].v0.prongID[2], wk[w].fit)

\* C13: a match writes nothing that another match can reach, the fitter of
\* the tracker included, so a candidate matched while others are matched on
\* other workers ends as it ends when matched alone.
C13_MatchesIndependent ==
  /\ \A w \in Workers :
       wk[w].at = "done" =>
         /\ wk[w].ret = Alone(w).ret
         /\ wk[w].newV0 = Alone(w).v0
  /\ pc = "workers" => mFitterV0 = NewFitter

====
